---- MODULE Spec2Model ----
(***************************************************************************)
(* Model of OpenGamepadUI-steam: the JSON-RPC websocket server             *)
(* (scripts/server/server.py) and the product-info command line script     *)
(* (scripts/app_info.py).                                                  *)
(***************************************************************************)
EXTENDS Integers, Sequences, FiniteSets, TLC

(***************************************************************************)
(* Bounds                                                                  *)
(***************************************************************************)
\* total number of RPC messages the clients send in one run
MaxMsgs == 2
\* number of app ids on the command line of app_info.py
MaxAppArgs == 2
\* number of app ids in one backend answer of the filter specification
MaxApps == 2

(***************************************************************************)
(* Strings are sequences of character codes, so that str.lower() is        *)
(* computed character by character.                                        *)
(***************************************************************************)
S_game == <<103, 97, 109, 101>>
S_Game == <<71, 97, 109, 101>>
S_GAME == <<71, 65, 77, 69>>
S_gAmE == <<103, 65, 109, 69>>
S_games == <<103, 97, 109, 101, 115>>
S_dlc == <<100, 108, 99>>
S_Tool == <<84, 111, 111, 108>>
S_empty == <<>>
S_TF2 == <<84, 70, 50>>
S_Dota == <<68, 111, 116, 97>>

TypeStrs == {S_game, S_Game, S_GAME, S_gAmE, S_games, S_dlc, S_Tool, S_empty}
NameStrs == {S_TF2, S_Dota}

\* str.lower() on one character: 'A'..'Z' -> 'a'..'z'
LowerChar(ch) == IF ch >= 65 /\ ch <= 90 THEN ch + 32 ELSE ch

\* str.lower()
Lower(s) == [i \in DOMAIN s |-> LowerChar(s[i])]

(***************************************************************************)
(* Backend documents.  A dict is a function from the keys it has.          *)
(***************************************************************************)
AllAppIds == {440, 570, 730}
EmptyDict == [k \in {} |-> {}]

CommonSections ==
    { c \in UNION { [F -> TypeStrs \cup NameStrs] : F \in SUBSET {"type", "name"} } :
        /\ ("type" \in DOMAIN c => c["type"] \in TypeStrs)
        /\ ("name" \in DOMAIN c => c["name"] \in NameStrs) }

AppDocs ==
    { [k \in S |-> IF k = "common" THEN c ELSE EmptyDict] :
        S \in {{}, {"extended"}, {"common"}, {"common", "extended"}}, c \in CommonSections }

\* what client.get_product_info() gives back: None / {} or {"apps": {...}}
NoData == EmptyDict
ProductData(docs) == [k \in {"apps"} |-> docs]

\* Python truthiness of the returned dict ("if not data")
Falsy(data) == DOMAIN data = {}

(***************************************************************************)
(* get_product_name: the filter loop and the value returned                *)
(***************************************************************************)
\* the filter without the test of the type
KeepName_AnyType(app) ==
    /\ "common" \in DOMAIN app
    /\ "name" \in DOMAIN app["common"]

KeepName(app) ==
    /\ "common" \in DOMAIN app
    /\ "type" \in DOMAIN app["common"]
    /\ Lower(app["common"]["type"]) = S_game
    /\ "name" \in DOMAIN app["common"]

get_product_name_result(data) ==
    IF Falsy(data) THEN EmptyDict
    ELSE LET d == data["apps"]
         IN  [a \in {x \in DOMAIN d : KeepName(d[x])} |-> d[a]["common"]["name"]]

(***************************************************************************)
(* get_product_info: the filter loop builds `apps`, the handler returns    *)
(* `data`                                                                  *)
(***************************************************************************)
KeepInfo(app) ==
    /\ "common" \in DOMAIN app
    /\ "type" \in DOMAIN app["common"]
    /\ app["common"]["type"] = S_game

get_product_info_apps(data) ==
    LET d == data["apps"]
    IN  [a \in {x \in DOMAIN d : KeepInfo(d[x])} |-> d[a]["common"]]

get_product_info_result(data) ==
    IF Falsy(data) THEN EmptyDict
    ELSE data["apps"]

(***************************************************************************)
(* The server process: one CachingSteamClient, the persisted user data     *)
(* files, and one main() task per websocket connection on one event loop.  *)
(***************************************************************************)
Conns == {"c1", "c2"}
Users == {"alice", "bob"}
Paths == {"/data"}
Keys == {{440}, {440, 570}}
None == "None"
NoFile == "NoFile"

\* EResult values client.login() / client.relogin() return
EResults == {"OK", "InvalidPassword", "RateLimitExceeded", "TryAnotherCM",
             "AccountLoginDeniedNeedTwoFactor"}
FailureResults == EResults \ {"OK"}

Methods == {"load_vdf", "is_logged_in", "set_credential_location", "relogin_available",
            "relogin", "login", "get_product_info", "get_product_name", "list_apps"}

VARIABLES fdata, fop, fres

VARIABLES cli_pc, skip_licenses, app_ids, licenses, anon, waited, licensed_app_ids, idx,
          fetched, ret

VARIABLES
    logged_on,      \* client.logged_on
    username,       \* client.username
    login_key,      \* client.login_key (named by the account it belongs to)
    cred_loc,       \* client.credential_location
    lastuser,       \* content of UserDataFile("client/lastuser"), NoFile if absent
    keys,           \* accounts u for which UserDataFile("client/u.key") exists
    inbox,          \* per connection: messages arrived and not yet dispatched
    task,           \* per connection: where its main() task stands
    cur,            \* per connection: the request its handler is running
    resp,           \* per connection: the response of the last handler run
    sent,           \* per connection: ids of the responses sent, in order
    open,           \* per connection: the websocket is open
    nmsgs,          \* messages sent by the clients so far
    received,       \* per connection: ids of the messages in arrival order
    dispatched,     \* per connection: ids of the messages in dispatch order
    overlap,        \* pairs of same-key get_product_info requests pending together
    fetches,        \* per key: calls of client.get_product_info so far
    gpi_log         \* outcomes of the get_product_info requests named in overlap

svars == <<logged_on, username, login_key, cred_loc, lastuser, keys, inbox, task, cur,
           resp, sent, open, nmsgs, received, dispatched, overlap, fetches, gpi_log>>

Requests ==
    { [method |-> m, arg |-> "", apps |-> {}] :
        m \in {"is_logged_in", "relogin_available", "relogin", "list_apps", "no_such_method"} }
    \cup { [method |-> "login", arg |-> u, apps |-> {}] : u \in Users }
    \cup { [method |-> m, arg |-> p, apps |-> {}] :
             m \in {"load_vdf", "set_credential_location"}, p \in Paths }
    \cup { [method |-> m, arg |-> "", apps |-> k] :
             m \in {"get_product_info", "get_product_name"}, k \in Keys }

NoReq == [rid |-> 0, method |-> "", arg |-> "", apps |-> {}, result |-> "",
          logged |-> FALSE, pre_lastuser |-> NoFile, pre_keys |-> {}]

NoResp == [rid |-> 0, method |-> "", apps |-> {}, kind |-> "", val |-> "", data |-> EmptyDict,
           ids |-> <<>>, logged |-> FALSE, backend |-> FALSE, fetchNo |-> 0,
           pre_lastuser |-> NoFile, pre_keys |-> {}]

\* the response a handler run of connection c ends with
Response(c, kind, val, data, ids, backend, fetchNo) ==
    [rid |-> cur[c].rid, method |-> cur[c].method, apps |-> cur[c].apps, kind |-> kind,
     val |-> val, data |-> data, ids |-> ids, logged |-> cur[c].logged, backend |-> backend,
     fetchNo |-> fetchNo, pre_lastuser |-> cur[c].pre_lastuser, pre_keys |-> cur[c].pre_keys]

Success(c, val) == Response(c, "success", val, EmptyDict, <<>>, FALSE, 0)
ServerError(c, backend) == Response(c, "error", "ServerError", EmptyDict, <<>>, backend, 0)

\* documents the backend answers with in the server specification
GameDoc == [k \in {"common"} |-> [f \in {"type", "name"} |->
                                    IF f = "type" THEN S_game ELSE S_TF2]]
ToolDoc == [k \in {"common"} |-> [f \in {"type"} |-> S_Tool]]
BackendAnswers(k) == {NoData} \cup { ProductData(d) : d \in [k -> {GameDoc, ToolDoc}] }

RECURSIVE SortedSeq(_)
\* sorted(): the elements of a set of integers in ascending order
SortedSeq(S) ==
    IF S = {} THEN <<>>
    ELSE LET m == CHOOSE x \in S : \A y \in S : x <= y
         IN  <<m>> \o SortedSeq(S \ {m})

\* requests of connection c that arrived and have no response yet
Pending(c) ==
    { inbox[c][i] : i \in DOMAIN inbox[c] }
    \cup (IF task[c] \in {"handler", "login_write", "send", "hung"}
          THEN {[rid |-> cur[c].rid, method |-> cur[c].method, arg |-> cur[c].arg,
                 apps |-> cur[c].apps]}
          ELSE {})

\* handlers that run beside each other, as on one thread per connection
LoopFree_Always == TRUE

\* the event loop runs one task at a time: a task that was resumed keeps the
\* loop until its next suspension point (the `async for` of main)
LoopFree == \A c \in Conns : task[c] \in {"recv", "closed"}

\* the newest message first
NextMessage_Last(q) == q[Len(q)]

\* `async for message in websocket`: messages come out in arrival order
NextMessage(q) == Head(q)
RestMessages(q) == Tail(q)

\* the user data files at process start: a first run, or what an earlier run
\* of an account left behind
PersistedAtStart == {<<NoFile, {}>>, <<"alice", {"alice"}>>}

InitServer ==
    /\ logged_on = FALSE
    /\ username = None
    /\ login_key = None
    /\ cred_loc = "default"
    /\ \E p \in PersistedAtStart :
         /\ lastuser = p[1]
         /\ keys = p[2]
    /\ inbox = [c \in Conns |-> <<>>]
    /\ task = [c \in Conns |-> "recv"]
    /\ cur = [c \in Conns |-> NoReq]
    /\ resp = [c \in Conns |-> NoResp]
    /\ sent = [c \in Conns |-> <<>>]
    /\ open = [c \in Conns |-> TRUE]
    /\ nmsgs = 0
    /\ received = [c \in Conns |-> <<>>]
    /\ dispatched = [c \in Conns |-> <<>>]
    /\ overlap = {}
    /\ fetches = [k \in Keys |-> 0]
    /\ gpi_log = {}

clientVars == <<logged_on, username, login_key, cred_loc>>
fileVars == <<lastuser, keys>>
histVars == <<received, dispatched, overlap, gpi_log>>

\* a client sends a message on its connection
Receive(c, r) ==
    /\ open[c]
    /\ nmsgs < MaxMsgs
    /\ nmsgs' = nmsgs + 1
    /\ LET m == [rid |-> nmsgs + 1, method |-> r.method, arg |-> r.arg, apps |-> r.apps]
       IN  /\ inbox' = [inbox EXCEPT ![c] = Append(@, m)]
           /\ received' = [received EXCEPT ![c] = Append(@, m.rid)]
           /\ overlap' = overlap \cup
                { {p.rid, m.rid} : p \in { q \in UNION { Pending(d) : d \in Conns } :
                                             /\ m.method = "get_product_info"
                                             /\ q.method = m.method
                                             /\ q.apps = m.apps } }
    /\ UNCHANGED <<clientVars, fileVars, task, cur, resp, sent, open, dispatched, fetches,
                   gpi_log>>

\* the client side closes the connection
Close(c) ==
    /\ open[c]
    /\ open' = [open EXCEPT ![c] = FALSE]
    /\ task' = [task EXCEPT ![c] = IF @ = "recv" THEN "closed" ELSE @]
    /\ UNCHANGED <<clientVars, fileVars, inbox, cur, resp, sent, nmsgs, histVars, fetches>>

\* main(): the `async for` yields the next message and async_dispatch is entered
Dispatch(c) ==
    /\ LoopFree
    /\ task[c] = "recv"
    /\ inbox[c] # <<>>
    /\ LET m == NextMessage(inbox[c])
       IN  /\ cur' = [cur EXCEPT ![c] =
                        [rid |-> m.rid, method |-> m.method, arg |-> m.arg, apps |-> m.apps,
                         result |-> "", logged |-> logged_on,
                         pre_lastuser |-> lastuser, pre_keys |-> keys]]
           /\ dispatched' = [dispatched EXCEPT ![c] = Append(@, m.rid)]
    /\ inbox' = [inbox EXCEPT ![c] = RestMessages(@)]
    /\ task' = [task EXCEPT ![c] = "handler"]
    /\ UNCHANGED <<clientVars, fileVars, resp, sent, open, nmsgs, received, overlap, fetches,
                   gpi_log>>

\* a handler run of connection c ends with response r
Return(c, r) ==
    /\ resp' = [resp EXCEPT ![c] = r]
    /\ task' = [task EXCEPT ![c] = "send"]

\* a blocking call of the handler of connection c never returns
Hang(c) ==
    /\ task' = [task EXCEPT ![c] = "hung"]
    /\ UNCHANGED resp

InHandler(c, m) == task[c] = "handler" /\ cur[c].method = m

handlerFrame == <<inbox, sent, open, nmsgs, received, dispatched, overlap>>

\* the outcome of a get_product_info request that was pending together with
\* another one for the same apps is kept for comparison
Logged(c, kind, fetchNo, data) ==
    IF cur[c].rid \in UNION overlap
    THEN gpi_log' = gpi_log \cup {[rid |-> cur[c].rid, kind |-> kind, fetchNo |-> fetchNo,
                                  data |-> data]}
    ELSE UNCHANGED gpi_log

\* load_vdf(path): vdf.load(open(path)) gives the parsed file or raises
load_vdf(c) ==
    /\ InHandler(c, "load_vdf")
    /\ \E ok \in BOOLEAN :
         Return(c, IF ok THEN Success(c, "vdf") ELSE ServerError(c, FALSE))
    /\ UNCHANGED <<clientVars, fileVars, cur, fetches, gpi_log, handlerFrame>>

\* is_logged_in()
is_logged_in(c) ==
    /\ InHandler(c, "is_logged_in")
    /\ Return(c, Success(c, IF logged_on THEN "True" ELSE "False"))
    /\ UNCHANGED <<clientVars, fileVars, cur, fetches, gpi_log, handlerFrame>>

\* set_credential_location(path)
set_credential_location(c) ==
    /\ InHandler(c, "set_credential_location")
    /\ cred_loc' = cur[c].arg
    /\ Return(c, Success(c, "None"))
    /\ UNCHANGED <<logged_on, username, login_key, fileVars, cur, fetches, gpi_log, handlerFrame>>

\* the value relogin_available() returns
relogin_available_value == lastuser # NoFile /\ lastuser \in keys

\* relogin_available()
relogin_available(c) ==
    /\ InHandler(c, "relogin_available")
    /\ IF relogin_available_value
       THEN /\ username' = lastuser
            /\ login_key' = lastuser
            /\ Return(c, Success(c, "True"))
       ELSE /\ UNCHANGED <<username, login_key>>
            /\ Return(c, Success(c, "False"))
    /\ UNCHANGED <<logged_on, cred_loc, fileVars, cur, fetches, gpi_log, handlerFrame>>

\* the login key the client library stores for account u when a logon
\* succeeded: the handlers of server.py do not write a key file themselves,
\* the library may (saved) or may not
LibrarySavesKey(u, saved) ==
    IF saved
    THEN /\ keys' = keys \cup {u}
         /\ login_key' = u
    ELSE UNCHANGED <<keys, login_key>>

\* relogin(): client.relogin() returns an EResult, raises or blocks for ever
relogin(c) ==
    /\ InHandler(c, "relogin")
    /\ UNCHANGED <<cred_loc, username, lastuser, cur, fetches, gpi_log, handlerFrame>>
    /\ \/ \E r \in EResults :
            /\ r = "OK" => (username # None /\ login_key # None)
            /\ logged_on' = (r = "OK")
            /\ \E saved \in BOOLEAN :
                 /\ saved => r = "OK"
                 /\ LibrarySavesKey(username, saved)
            /\ Return(c, Response(c, "success", r, EmptyDict, <<>>, TRUE, 0))
       \/ /\ Return(c, ServerError(c, TRUE))
          /\ UNCHANGED <<logged_on, login_key, keys>>
       \/ /\ Hang(c)
          /\ UNCHANGED <<logged_on, login_key, keys>>

\* login(user, ...), line 66: client.login(...) returns an EResult, raises or
\* blocks for ever
login_call(c) ==
    /\ InHandler(c, "login")
    /\ UNCHANGED <<cred_loc, lastuser, fetches, gpi_log, handlerFrame>>
    /\ \/ \E r \in EResults :
            /\ logged_on' = (r = "OK")
            /\ username' = cur[c].arg
            /\ \E saved \in BOOLEAN :
                 /\ saved => r = "OK"
                 /\ LibrarySavesKey(cur[c].arg, saved)
            /\ cur' = [cur EXCEPT ![c].result = r]
            /\ task' = [task EXCEPT ![c] = "login_write"]
            /\ UNCHANGED resp
       \/ /\ Return(c, ServerError(c, TRUE))
          /\ UNCHANGED <<logged_on, username, login_key, keys, cur>>
       \/ /\ Hang(c)
          /\ UNCHANGED <<logged_on, username, login_key, keys, cur>>

\* login(user, ...), lines 70-72: lastFile.write_text(user); return Success(result)
login_write(c) ==
    /\ task[c] = "login_write"
    /\ lastuser' = cur[c].arg
    /\ Return(c, Response(c, "success", cur[c].result, EmptyDict, <<>>, TRUE, 0))
    /\ UNCHANGED <<clientVars, keys, cur, fetches, gpi_log, handlerFrame>>

\* get_product_info(apps, ...)
get_product_info(c) ==
    /\ InHandler(c, "get_product_info")
    /\ fetches' = [fetches EXCEPT ![cur[c].apps] = @ + 1]
    /\ \/ \E data \in BackendAnswers(cur[c].apps) :
            /\ Return(c, Response(c, "success", "", get_product_info_result(data), <<>>, TRUE,
                                  fetches'[cur[c].apps]))
            /\ Logged(c, "success", fetches'[cur[c].apps], get_product_info_result(data))
       \/ /\ Return(c, ServerError(c, TRUE))
          /\ Logged(c, "error", fetches'[cur[c].apps], EmptyDict)
       \/ /\ Hang(c)
          /\ UNCHANGED gpi_log
    /\ UNCHANGED <<clientVars, fileVars, cur, handlerFrame>>

\* get_product_name(apps)
get_product_name(c) ==
    /\ InHandler(c, "get_product_name")
    /\ fetches' = [fetches EXCEPT ![cur[c].apps] = @ + 1]
    /\ \/ \E data \in BackendAnswers(cur[c].apps) :
            Return(c, Response(c, "success", "", get_product_name_result(data), <<>>, TRUE,
                               fetches'[cur[c].apps]))
       \/ Return(c, ServerError(c, TRUE))
       \/ Hang(c)
    /\ UNCHANGED <<clientVars, fileVars, cur, gpi_log, handlerFrame>>

\* list_apps()
list_apps(c) ==
    /\ InHandler(c, "list_apps")
    /\ \/ \E licensed \in SUBSET UNION Keys :
            Return(c, Response(c, "success", "", EmptyDict, SortedSeq(licensed), TRUE, 0))
       \/ Return(c, ServerError(c, TRUE))
       \/ Hang(c)
    /\ UNCHANGED <<clientVars, fileVars, cur, fetches, gpi_log, handlerFrame>>

\* async_dispatch() of a message that names no registered method
method_not_found(c) ==
    /\ task[c] = "handler"
    /\ cur[c].method \notin Methods
    /\ Return(c, Response(c, "error", "MethodNotFound", EmptyDict, <<>>, FALSE, 0))
    /\ UNCHANGED <<clientVars, fileVars, cur, fetches, gpi_log, handlerFrame>>

\* main(), line 148: websocket.send(response), then back to the `async for`;
\* on a closed connection send raises and main() ends
Send(c) ==
    /\ task[c] = "send"
    /\ IF open[c]
       THEN /\ sent' = [sent EXCEPT ![c] = Append(@, resp[c].rid)]
            /\ task' = [task EXCEPT ![c] = "recv"]
       ELSE /\ task' = [task EXCEPT ![c] = "closed"]
            /\ UNCHANGED sent
    /\ cur' = [cur EXCEPT ![c] = NoReq]
    /\ resp' = [resp EXCEPT ![c] = NoResp]
    /\ UNCHANGED <<clientVars, fileVars, inbox, open, nmsgs, histVars, fetches>>

Handler(c) ==
    \/ load_vdf(c)
    \/ is_logged_in(c)
    \/ set_credential_location(c)
    \/ relogin_available(c)
    \/ relogin(c)
    \/ login_call(c)
    \/ login_write(c)
    \/ get_product_info(c)
    \/ get_product_name(c)
    \/ list_apps(c)
    \/ method_not_found(c)

\* the steps the server process takes by itself
ServerStep == \E c \in Conns : Dispatch(c) \/ Handler(c) \/ Send(c)

\* the steps of the clients
ClientStep == \E c \in Conns : (\E r \in Requests : Receive(c, r)) \/ Close(c)

(***************************************************************************)
(* app_info.py: cmd_apps_product_info(args)                                *)
(***************************************************************************)
cvars == <<cli_pc, skip_licenses, app_ids, licenses, anon, waited, licensed_app_ids, idx,
           fetched, ret>>
fvars == <<fdata, fop, fres>>
vars == <<svars, cvars, fvars>>

AppIdArgs == UNION { [1..n -> AllAppIds] : n \in 0..MaxAppArgs }

InitCli ==
    /\ cli_pc = "start"
    /\ skip_licenses \in BOOLEAN
    /\ app_ids \in AppIdArgs
    /\ licenses \in BOOLEAN          \* s.licenses is non-empty
    /\ anon \in BOOLEAN              \* s.steam_id.type = EType.AnonUser
    /\ waited = FALSE
    /\ licensed_app_ids = {}
    /\ idx = 1
    /\ fetched = FALSE
    /\ ret = "running"

\* a check that lets every app id pass
IsLicensed_Always(app_id, ids) == TRUE

\* "app_id not in cdn.licensed_app_ids" is false
IsLicensed(app_id, ids) == app_id \in ids

\* the condition of line 45, under which line 46 waits for the license list
MustWait == ~licenses /\ ~anon

\* lines 42-45
cli_begin ==
    /\ cli_pc = "start"
    /\ cli_pc' = IF skip_licenses THEN "fetch" ELSE IF MustWait THEN "wait" ELSE "load"
    /\ UNCHANGED <<skip_licenses, app_ids, licenses, anon, waited, licensed_app_ids, idx,
                   fetched, ret>>

\* line 46: s.wait_event(EMsg.ClientLicenseList, raises=False, timeout=10); the
\* list arrives (with or without licenses in it) or the wait times out
cli_wait ==
    /\ cli_pc = "wait"
    /\ waited' = TRUE
    /\ licenses' \in BOOLEAN
    /\ cli_pc' = "load"
    /\ UNCHANGED <<skip_licenses, app_ids, anon, licensed_app_ids, idx, fetched, ret>>

\* lines 48-49: cdn.load_licenses()
cli_load ==
    /\ cli_pc = "load"
    /\ licensed_app_ids' \in SUBSET AllAppIds
    /\ (~licenses /\ ~anon) => licensed_app_ids' = {}
    /\ cli_pc' = "check"
    /\ UNCHANGED <<skip_licenses, app_ids, licenses, anon, waited, idx, fetched, ret>>

\* lines 51-58: one round of the loop over args.app_ids
cli_check ==
    /\ cli_pc = "check"
    /\ IF idx > Len(app_ids)
       THEN /\ cli_pc' = "fetch"
            /\ UNCHANGED <<idx, ret>>
       ELSE IF IsLicensed(app_ids[idx], licensed_app_ids)
            THEN /\ idx' = idx + 1
                 /\ UNCHANGED <<cli_pc, ret>>
            ELSE /\ ret' = "1"
                 /\ cli_pc' = "done"
                 /\ UNCHANGED idx
    /\ UNCHANGED <<skip_licenses, app_ids, licenses, anon, waited, licensed_app_ids, fetched>>

\* lines 60-68: s.get_product_info(apps=args.app_ids) and the output
cli_fetch ==
    /\ cli_pc = "fetch"
    /\ fetched' = TRUE
    /\ \E empty \in BOOLEAN : ret' = IF empty THEN "1" ELSE "None"
    /\ cli_pc' = "done"
    /\ UNCHANGED <<skip_licenses, app_ids, licenses, anon, waited, licensed_app_ids, idx>>

CliIdle ==
    /\ cli_pc = "idle"
    /\ skip_licenses = FALSE
    /\ app_ids = <<>>
    /\ licenses = FALSE
    /\ anon = FALSE
    /\ waited = FALSE
    /\ licensed_app_ids = {}
    /\ idx = 1
    /\ fetched = FALSE
    /\ ret = "running"

FilterIdle ==
    /\ fdata = NoData
    /\ fop = "idle"
    /\ fres = EmptyDict

ServerIdle ==
    /\ InitServer
    /\ lastuser = NoFile
    /\ keys = {}

NextCli ==
    \/ cli_begin /\ UNCHANGED <<svars, fvars>>
    \/ cli_wait /\ UNCHANGED <<svars, fvars>>
    \/ cli_load /\ UNCHANGED <<svars, fvars>>
    \/ cli_check /\ UNCHANGED <<svars, fvars>>
    \/ cli_fetch /\ UNCHANGED <<svars, fvars>>

InitCliRun == InitCli /\ ServerIdle /\ FilterIdle

SpecCli == InitCliRun /\ [][NextCli]_vars

(***************************************************************************)
(* The two filters on every bounded backend answer                         *)
(***************************************************************************)
FilterInputs ==
    {NoData} \cup
    { ProductData(d) :
        d \in UNION { [A -> AppDocs] :
                        A \in {X \in SUBSET AllAppIds : Cardinality(X) <= MaxApps} } }

InitFilter ==
    /\ fdata \in FilterInputs
    /\ fop = "none"
    /\ fres = EmptyDict

ApplyProductName ==
    /\ fop = "none"
    /\ fop' = "get_product_name"
    /\ fres' = get_product_name_result(fdata)
    /\ UNCHANGED <<fdata, svars, cvars>>

ApplyProductInfo ==
    /\ fop = "none"
    /\ fop' = "get_product_info"
    /\ fres' = get_product_info_result(fdata)
    /\ UNCHANGED <<fdata, svars, cvars>>

NextFilter == ApplyProductName \/ ApplyProductInfo

InitFilterRun == InitFilter /\ ServerIdle /\ CliIdle

SpecFilter == InitFilterRun /\ [][NextFilter]_vars

(***************************************************************************)
(* The server                                                              *)
(***************************************************************************)
Init == InitServer /\ CliIdle /\ FilterIdle

ServerNext == ServerStep /\ UNCHANGED <<cvars, fvars>>
ClientNext == ClientStep /\ UNCHANGED <<cvars, fvars>>

Next == ServerNext \/ ClientNext

Spec == Init /\ [][Next]_vars

\* the event loop runs a task that can run
FairSpec == Spec /\ WF_vars(ServerNext)

(***************************************************************************)
(* Properties                                                              *)
(***************************************************************************)
\* two character codes are the same letter in either case, or the same character
SameLetter(a, b) ==
    \/ a = b
    \/ a \in 65..90 /\ b = a + 32
    \/ b \in 65..90 /\ a = b + 32

EqualsIgnoreCase(s, t) ==
    /\ Len(s) = Len(t)
    /\ \A i \in 1..Len(s) : SameLetter(s[i], t[i])

\* C1: the mapping get_product_name returns has an app id only if the backend
\* answer has that app with a common section whose type is "game" in any
\* letter case and which has a name, and the value is that name.
C1_ProductNameOnlyNamedGames ==
    fop = "get_product_name" =>
        IF Falsy(fdata) THEN fres = EmptyDict
        ELSE \A a \in DOMAIN fres :
                /\ a \in DOMAIN fdata["apps"]
                /\ "common" \in DOMAIN fdata["apps"][a]
                /\ "type" \in DOMAIN fdata["apps"][a]["common"]
                /\ EqualsIgnoreCase(fdata["apps"][a]["common"]["type"], S_game)
                /\ "name" \in DOMAIN fdata["apps"][a]["common"]
                /\ fres[a] = fdata["apps"][a]["common"]["name"]

\* a game typed in another letter case is returned by name while another app
\* of the same answer is left out
C1_Witness ==
    /\ fop = "get_product_name"
    /\ \E a \in DOMAIN fres : fdata["apps"][a]["common"]["type"] = S_GAME
    /\ \E a \in DOMAIN fdata["apps"] : a \notin DOMAIN fres

\* C8: the mapping get_product_info returns has an app id only if the app has
\* a common section whose type is "game", and an empty backend answer gives an
\* empty mapping.
C8_ProductInfoOnlyGames ==
    fop = "get_product_info" =>
        IF Falsy(fdata) THEN fres = EmptyDict
        ELSE \A a \in DOMAIN fres :
                /\ "common" \in DOMAIN fdata["apps"][a]
                /\ "type" \in DOMAIN fdata["apps"][a]["common"]
                /\ fdata["apps"][a]["common"]["type"] = S_game

\* the handler of connection c has just returned response fields for method m
Returned(c, m) == task[c] = "send" /\ resp[c].method = m

\* C2: a login whose client.login() returned a failure leaves the lastuser
\* record and the key records as they were when the call began.
C2_FailedLoginKeepsFiles ==
    \A c \in Conns :
        (Returned(c, "login") /\ resp[c].kind = "success" /\ resp[c].val \in FailureResults)
            => (lastuser = resp[c].pre_lastuser /\ keys = resp[c].pre_keys)

\* C3: relogin_available() answers false whenever no key record exists, and a
\* relogin_available() called right after a login() that returned OK answers
\* true.
C3_ReloginAvailable ==
    \A c \in Conns :
        /\ (Returned(c, "relogin_available") /\ keys = {}) => resp[c].val = "False"
        /\ (Returned(c, "login") /\ resp[c].kind = "success" /\ resp[c].val = "OK")
              => relogin_available_value

AuthMethods == {"list_apps", "get_product_info", "get_product_name"}

\* C4: list_apps, get_product_info and get_product_name, run while the client
\* is not logged on, end with a NotAuthenticated error without a backend call
\* and without blocking.
C4_NotAuthenticated ==
    \A c \in Conns :
        (task[c] \in {"send", "hung"} /\ cur[c].method \in AuthMethods /\ ~cur[c].logged)
            => /\ task[c] = "send"
               /\ resp[c].kind = "error"
               /\ resp[c].val = "NotAuthenticated"
               /\ ~resp[c].backend

\* message n arrived on connection c
Arrived(c, n) == \E i \in DOMAIN received[c] : received[c][i] = n
\* the response to message n was sent on connection c
Answered(c, n) == \E i \in DOMAIN sent[c] : sent[c][i] = n

\* C5: every message that arrived on a connection is eventually answered on
\* it, unless the connection closed.
C5_EveryRequestAnswered ==
    \A c \in Conns : \A n \in 1..MaxMsgs :
        Arrived(c, n) ~> (Answered(c, n) \/ ~open[c])

\* connection c is inside a run of the login or relogin handler
InLoginRun(c) ==
    /\ task[c] \in {"handler", "login_write", "send", "hung"}
    /\ cur[c].method \in {"login", "relogin"}

\* C6: two login/relogin runs never interleave: no two connections are inside
\* one at the same time, and when a login run ends the client's user and the
\* lastuser record are both the ones of that run.
C6_LoginsDoNotInterleave ==
    /\ \A c, d \in Conns : (c # d /\ InLoginRun(c)) => ~InLoginRun(d)
    /\ \A c \in Conns :
         (Returned(c, "login") /\ resp[c].kind = "success")
            => /\ lastuser = cur[c].arg
               /\ username = cur[c].arg
               /\ logged_on = (resp[c].val = "OK")

\* a login run is between its two writes while a login or relogin request of
\* another connection is waiting
C6_Witness ==
    \E c, d \in Conns :
        /\ c # d
        /\ task[c] = "login_write"
        /\ \E i \in DOMAIN inbox[d] : inbox[d][i].method \in {"login", "relogin"}

\* C7: get_product_info requests for the same apps that were pending together
\* are served by one backend fetch and get the same result.
C7_OneFetchPerKey ==
    \A x, y \in gpi_log :
        {x.rid, y.rid} \in overlap =>
            /\ x.fetchNo = y.fetchNo
            /\ x.kind = y.kind
            /\ x.data = y.data

\* the app ids of the command line that the loaded licenses do not cover
Unlicensed == { i \in DOMAIN app_ids : app_ids[i] \notin licensed_app_ids }

\* C9: without skip_licenses, an app id outside the loaded licenses makes the
\* command return 1 without a get_product_info call; product info is fetched
\* only when every app id is licensed; and the wait for the license list is
\* left out only if licenses were present or the session is anonymous.
C9_LicenseGate ==
    ~skip_licenses =>
        /\ (cli_pc \in {"check", "fetch", "done"} /\ Unlicensed # {})
              => /\ ~fetched
                 /\ cli_pc # "fetch"
                 /\ cli_pc = "done" => ret = "1"
        /\ (cli_pc = "fetch" \/ fetched) => Unlicensed = {}
        /\ (cli_pc \in {"load", "check", "fetch", "done"} /\ ~waited) => (licenses \/ anon)

\* the command ended with 1 at the second app id, after the first was found
\* licensed and after the wait for the license list
C9_Witness ==
    /\ cli_pc = "done"
    /\ ~skip_licenses
    /\ waited
    /\ idx = 2
    /\ Unlicensed # {}
    /\ ret = "1"
    /\ ~fetched

IsPrefix(s, t) == Len(s) <= Len(t) /\ \A i \in 1..Len(s) : s[i] = t[i]

\* C10: on each connection messages are dispatched in arrival order, responses
\* are sent in dispatch order, and a message is dispatched only when every
\* message dispatched before it has its response sent (or the connection closed).
C10_OneAtATimeInOrder ==
    \A c \in Conns :
        /\ IsPrefix(dispatched[c], received[c])
        /\ IsPrefix(sent[c], dispatched[c])
        /\ Len(dispatched[c]) <= Len(sent[c]) + 1
        /\ (task[c] = "recv" /\ open[c]) => Len(dispatched[c]) = Len(sent[c])

\* the response to the first message of a connection is about to be sent
\* while its second message has arrived and waits
C10_Witness ==
    \E c \in Conns : task[c] = "send" /\ Len(dispatched[c]) = 1 /\ Len(inbox[c]) = 1

====
